---- MODULE Spec2Model ----
(***************************************************************************)
(* Model of branch-narrator-action: one run of the action (main.ts run,    *)
(* runner.ts runBranchNarrator, github.ts helpers), the marker-based PR    *)
(* comment upsert (github.ts createOrUpdateComment) and the delta          *)
(* reconciliation the analyzer performs.                                   *)
(*                                                                         *)
(* The specifications of the module:                                       *)
(*   Spec         one run of the action, from getInputs to the finally     *)
(*   SpecLive     the same run under fair scheduling                       *)
(*   SpecPublish  createOrUpdateComment called by one publisher            *)
(*   SpecRace     createOrUpdateComment called by two publishers           *)
(*   SpecDelta    compare(baseline, current) over bounded snapshots        *)
(*   SpecBaseline downloadBaselineArtifact over its environment            *)
(*   SpecArgs     the command lines built from RunnerOptions               *)
(*   SpecScope    one run over since-strict and the baseline's scope       *)
(*   SpecJoin     runBranchNarrator joining its concurrent subprocesses    *)
(*   SpecRange    one run over the event and the base-sha / head-sha inputs*)
(*   SpecCounts   run() from the analysis results to the outputs           *)
(***************************************************************************)
EXTENDS Integers, Sequences, FiniteSets, TLC

VARIABLES
    \* ---- one run of the action (main.ts run) ----
    inputs,           \* ActionInputs plus the event context and GITHUB_TOKEN
    pc,               \* where run() is suspended (its pending await)
    tasks,            \* analyzer subprocess -> status
    taskOut,          \* analyzer subprocess -> parsed result
    resolvedVersion,  \* runner.ts resolvedVersion
    tempArtifactDir,  \* github.ts module-level tempArtifactDir (null / path)
    tempDirOnDisk,    \* whether the baseline staging directory exists on disk
    baselinePath,     \* main.ts baselinePath (undefined / path)
    artifacts,        \* artifact names uploaded by this run
    sarifArtifactName,\* main.ts sarifArtifactName
    delta,            \* main.ts [deltaNewFindings, deltaResolvedFindings]
    summary,          \* step summary written (content) or not
    outputs,          \* core.setOutput name -> value
    failed,           \* core.setFailed message, or "none"
    gateEvaluated,    \* the fail-on-score check has been reached
    log,              \* stage begin/end events, in execution order
    \* ---- the pull request's comments (GitHub) ----
    comments,         \* sequence of [id, body], ascending id
    existingCommentId,\* publisher -> result of findExistingComment
    \* ---- createOrUpdateComment callers (SpecPublish) ----
    pubPc,            \* publisher -> "idle" | "listing" | "acting"
    pubBody,          \* publisher -> body of the call in progress
    pubCalls,         \* publisher -> completed calls (history)
    pubSolo,          \* publisher -> its call overlapped no other call
    soloDone,         \* completed non-overlapping calls since the last overlap
    apiFailed,        \* some comment API call has failed so far
    preExisting,      \* comments present before the first call
    lastPosted,       \* body of the last call that returned true
    \* ---- compare(baseline, current) (SpecDelta) ----
    baselineSnap,     \* baseline snapshot: sequence of findings
    currentSnap,      \* current snapshot: sequence of findings
    deltaResult,      \* result of the last compare call, or NoDelta
    reordered,        \* the snapshots were reordered after that call
    \* ---- calls and their arguments ----
    options,          \* RunnerOptions handed to runBranchNarrator
    invoked,          \* analyzer subprocess -> arguments of its command line
    versionLookup,    \* how the npm view of resolveVersion ended
    mkdtempCalls,     \* staging directories created by fs.mkdtemp
    cleanupCalls,     \* staging directories cleanupTempArtifacts went to remove
    fetch,            \* downloadBaselineArtifact: environment and result (SpecBaseline)
    runResult         \* RunResult returned by runBranchNarrator (SpecJoin)

runVars == <<inputs, pc, tasks, taskOut, resolvedVersion, tempArtifactDir,
             tempDirOnDisk, baselinePath, artifacts, sarifArtifactName, delta,
             summary, outputs, failed, gateEvaluated, log>>
ghVars == <<comments, existingCommentId>>
pubVars == <<pubPc, pubBody, pubCalls, pubSolo, soloDone, apiFailed, preExisting,
            lastPosted>>
deltaVars == <<baselineSnap, currentSnap, deltaResult, reordered>>
callVars == <<options, invoked, versionLookup, mkdtempCalls, cleanupCalls, fetch,
              runResult>>
vars == <<runVars, ghVars, pubVars, deltaVars, callVars>>

None == "none"

(***************************************************************************)
(* Helpers on sequences and sets.                                          *)
(***************************************************************************)
Range(s) == {s[i] : i \in DOMAIN s}

Min(a, b) == IF a <= b THEN a ELSE b

IsInjective(s) == \A i, j \in DOMAIN s : s[i] = s[j] => i = j

SeqsUpTo(S, n) == UNION {[1..k -> S] : k \in 0..n}

(***************************************************************************)
(* DeltaComparator.compare.  The comparison itself is done by the          *)
(* analyzer; the action only declares its result (DeltaInfo) and reads it  *)
(* (main.ts 269-275).                                                      *)
(***************************************************************************)
\* Bounds of SpecDelta.
NumKeys == 4
MaxFindings == 3

FindingKeys == 1..NumKeys

\* Snapshots: findings in some internal order, identity keys unique within one.
Snapshots == {s \in SeqsUpTo(FindingKeys, MaxFindings) : IsInjective(s)}

NoDelta == [present |-> FALSE]

\* build the identity-key set of a snapshot's findings
KeysOf(findings) == {findings[i] : i \in DOMAIN findings}


\* A wrong compare: a finding present in both snapshots is also kept as resolved.
compare_overlap(baseline, current) ==
    [present |-> TRUE,
     newFindingIds |-> KeysOf(current) \ KeysOf(baseline),
     resolvedFindingIds |-> KeysOf(baseline),
     unchangedFindingIds |-> KeysOf(baseline) \cap KeysOf(current)]

\* A wrong compare: new and resolved are taken the wrong way round.
compare_swapped(baseline, current) ==
    [present |-> TRUE,
     newFindingIds |-> KeysOf(baseline) \ KeysOf(current),
     resolvedFindingIds |-> KeysOf(current) \ KeysOf(baseline),
     unchangedFindingIds |-> KeysOf(baseline) \cap KeysOf(current)]

\* A wrong compare: findings are matched position by position.
compare_positional(baseline, current) ==
    LET same == {current[i] : i \in {j \in DOMAIN current \cap DOMAIN baseline :
                                        current[j] = baseline[j]}}
    IN [present |-> TRUE,
        newFindingIds |-> KeysOf(current) \ same,
        resolvedFindingIds |-> KeysOf(baseline) \ same,
        unchangedFindingIds |-> same]

\* newFindingIds = current \ baseline; resolvedFindingIds = baseline \ current;
\* unchangedFindingIds = baseline intersected with current.
compare(baseline, current) ==
    [present |-> TRUE,
     newFindingIds |-> KeysOf(current) \ KeysOf(baseline),
     resolvedFindingIds |-> KeysOf(baseline) \ KeysOf(current),
     unchangedFindingIds |-> KeysOf(baseline) \cap KeysOf(current)]

\* The same findings with two neighbours exchanged (another internal order).
SwapAt(s, i) ==
    [j \in DOMAIN s |-> IF j = i THEN s[i + 1] ELSE IF j = i + 1 THEN s[i] ELSE s[j]]


(***************************************************************************)
(* The pull request's comments and the marker-based upsert                 *)
(* (render.ts getCommentMarker / renderPRComment, github.ts                *)
(* findExistingComment / createOrUpdateComment).                           *)
(* A comment body is its sequence of lines.                                *)
(***************************************************************************)
COMMENT_MARKER == "<!-- branch-narrator:report -->"

\* A line of someone else's comment that quotes the marker.
QuotedMarkerLine == "> " \o COMMENT_MARKER

\* String.prototype.includes, on the lines this model writes.
LineIncludes(line, marker) == line = marker \/ line = "> " \o marker

BodyIncludes(body, marker) == \E i \in DOMAIN body : LineIncludes(body[i], marker)

\* renderPRComment: the marker is pushed first, then the report.
renderPRComment(content) == <<COMMENT_MARKER, "", content>>

\* renderStepSummary: the same report, without the marker.
renderStepSummary(content) == <<"## Branch Narrator Report", content>>

\* per_page of the one listComments request (no further page is fetched).
PerPage == 100

\* findExistingComment returns null.
NullId == 0

\* octokit.rest.issues.listComments: the first page, ascending id.
listComments(cs) == SubSeq(cs, 1, Min(Len(cs), PerPage))

\* findExistingComment: the id of the first listed comment whose body includes
\* the marker; null when there is none or when the listing failed.
findExistingComment(cs, listOk) ==
    IF ~listOk THEN NullId
    ELSE LET page == listComments(cs)
             hits == {i \in DOMAIN page : BodyIncludes(page[i].body, COMMENT_MARKER)}
         IN IF hits = {} THEN NullId
            ELSE page[CHOOSE i \in hits : \A j \in hits : i <= j].id

\* octokit.rest.issues.updateComment
updateComment(cs, id, body) ==
    [i \in DOMAIN cs |-> IF cs[i].id = id THEN [cs[i] EXCEPT !.body = body] ELSE cs[i]]

\* octokit.rest.issues.createComment: the new comment gets the next id.
createComment(cs, body) == Append(cs, [id |-> Len(cs) + 1, body |-> body])

\* createOrUpdateComment after the lookup: update the comment found, or create.
upsert(cs, existingId, body) ==
    IF existingId # NullId THEN updateComment(cs, existingId, body)
    ELSE createComment(cs, body)

\* A wrong publisher: an API error of the write is thrown to the caller.
createOrUpdateComment_rethrows(cs, existingId, body, apiOk) ==
    [comments |-> IF apiOk THEN upsert(cs, existingId, body) ELSE cs,
     posted |-> apiOk,
     threw |-> ~apiOk]

\* createOrUpdateComment from the lookup's answer on (github.ts 344-386): the
\* write, answered with true; an API error (permission errors included) is
\* caught, warned and answered with false (367-385), nothing is thrown.
createOrUpdateComment(cs, existingId, body, apiOk) ==
    [comments |-> IF apiOk THEN upsert(cs, existingId, body) ELSE cs,
     posted |-> apiOk,
     threw |-> FALSE]

\* Positions of the comments whose body includes the marker.
MarkerBearing(cs) == {i \in DOMAIN cs : BodyIncludes(cs[i].body, COMMENT_MARKER)}

\* A wrong precondition: a fork pull request is not held back.
shouldPostComment_forks(isFork, commentEnabled) ==
    IF ~commentEnabled THEN FALSE
    ELSE TRUE

\* shouldPostComment
shouldPostComment(isFork, commentEnabled) ==
    IF ~commentEnabled THEN FALSE
    ELSE IF isFork THEN FALSE
    ELSE TRUE


(***************************************************************************)
(* One run of the action: inputs and environment.                          *)
(***************************************************************************)
\* failOnScore: number | undefined
Undefined == -1

\* Risk scores the analyzer may report, and the thresholds configured.
Scores == {69, 70, 71}
Thresholds == {Undefined, 70}

\* base-sha / head-sha inputs: empty or given.
ShaInputs == {"", "sha"}

NoPath == <<>>

\* The analyzer subprocesses of runBranchNarrator.
Tasks == {"facts", "risk-report", "pr-body", "sarif"}
JsonTasks == {"facts", "risk-report"}

\* The version requested by the workflow, and the one the registry answers.
RequestedVersion == "latest"
RegistryVersion == "1.2.3"

\* How the range recorded in the stored baseline relates to the range of the
\* run: the same branch lineage, or an unrelated change set.
BaselineScopes == {"related", "unrelated"}

\* Every combination of event, range, comment, threshold, SARIF and baseline
\* inputs a run may start with, since-strict at its default (false) and the
\* stored baseline, if any, recorded over a related range.
InputSpace ==
    {i \in [isPR : BOOLEAN, isFork : BOOLEAN, baseSha : ShaInputs, headSha : ShaInputs,
            comment : BOOLEAN, hasToken : BOOLEAN, failOnScore : Thresholds,
            sarifUpload : BOOLEAN, baselineArtifact : BOOLEAN,
            sinceStrict : {FALSE}, baselineScope : {"related"}] :
        /\ ~i.isPR => ~i.isFork
        /\ i.isPR => (i.baseSha = "") = (i.headSha = "")}

\* A wrong range: base-sha / head-sha inputs, when given, win over the pull
\* request's SHAs.
RangeOf_inputsFirst(i) ==
    [base |-> IF i.baseSha # "" THEN i.baseSha ELSE "pr-base",
     head |-> IF i.headSha # "" THEN i.headSha ELSE "pr-head"]

\* main.ts 197-198: the analysed range.
RangeOf(i) ==
    IF i.isPR THEN [base |-> "pr-base", head |-> "pr-head"]
    ELSE [base |-> i.baseSha, head |-> i.headSha]

\* uploadArtifacts / uploadSarif artifact names, artifact-name being the default.
FactsArtifactName == "branch-narrator-facts"
RiskArtifactName == "branch-narrator-risk-report"
SarifArtifactName == "branch-narrator-sarif"

\* downloadBaselineArtifact: the staging directory and the two documents in it.
TempDir == <<"tmp", "branch-narrator-baseline-XXXXXX">>
FactsPathIn(dir) == dir \o <<"facts", "facts.json">>
RiskReportPathIn(dir) == dir \o <<"risk", "risk-report.json">>

\* The snapshots the analyzer compares in a run with a baseline.
RunBaselineSnap == <<1, 2, 3>>
RunCurrentSnap == <<3, 4>>

\* A set of identity keys as the array the analyzer prints (ascending).
RECURSIVE SetToSeq(_)
SetToSeq(S) ==
    IF S = {} THEN <<>>
    ELSE LET m == CHOOSE x \in S : \A y \in S : x <= y
         IN <<m>> \o SetToSeq(S \ {m})

\* facts.json as parsed: delta (DeltaInfo, types.ts 275-292) is present when
\* --since was passed; scopeMatch tells whether the baseline's range is
\* comparable, the three lists are computed either way.
FactsDelta(baseline, current, scope) ==
    LET d == compare(baseline, current)
    IN [present |-> TRUE,
        newFindings |-> SetToSeq(d.newFindingIds),
        resolvedFindings |-> SetToSeq(d.resolvedFindingIds),
        unchangedFindings |-> SetToSeq(d.unchangedFindingIds),
        scopeMatch |-> (scope = "related")]

FactsOutput(since, scope) ==
    [done |-> TRUE, from |-> "facts",
     delta |-> IF since = NoPath THEN NoDelta
               ELSE FactsDelta(RunBaselineSnap, RunCurrentSnap, scope)]

RiskOutput(score) == [done |-> TRUE, from |-> "risk-report", riskScore |-> score]
PrBodyOutput == [done |-> TRUE, from |-> "pr-body"]
SarifOutput == [done |-> TRUE, from |-> "sarif"]
NoOut == [done |-> FALSE]

\* What a subprocess that exits 0 with well-formed output yields.
TaskResults(t, since) ==
    CASE t = "facts" -> {FactsOutput(since, inputs.baselineScope)}
      [] t = "risk-report" -> {RiskOutput(sc) : sc \in Scores}
      [] t = "pr-body" -> {PrBodyOutput}
      [] t = "sarif" -> {SarifOutput}

\* How a subprocess may end: exit 0 with good output, a non-zero exit, or (for
\* the two JSON commands) exit 0 with output JSON.parse rejects.
TaskOutcomes(t) ==
    {"ok", "exit_nonzero"} \cup (IF t \in JsonTasks THEN {"bad_json"} ELSE {})

\* runBranchNarrator 372-381: the commands spawned.
Spawned(i) == {"facts", "risk-report", "pr-body"} \cup (IF i.sarifUpload THEN {"sarif"} ELSE {})

\* The report text rendered from the run's results (render.ts
\* renderStepSummary 253-268, renderPRComment 413-428): version, score and,
\* when a delta count is defined, each count that is above zero.
ReportContent(version, score, d) ==
    LET newCount == IF d.deltaNewFindings # Undefined THEN d.deltaNewFindings ELSE 0
        resolvedCount == IF d.deltaResolvedFindings # Undefined
                         THEN d.deltaResolvedFindings ELSE 0
    IN "v" \o version \o " score " \o ToString(score)
        \o (IF d.deltaNewFindings # Undefined \/ d.deltaResolvedFindings # Undefined
            THEN (IF newCount > 0 THEN " +" \o ToString(newCount) \o " new" ELSE "")
                 \o (IF resolvedCount > 0
                     THEN " -" \o ToString(resolvedCount) \o " resolved" ELSE "")
            ELSE "")


(***************************************************************************)
(* One run of the action: control flow of run() (main.ts 171-399) and      *)
(* runBranchNarrator (runner.ts 355-398).                                  *)
(***************************************************************************)
\* A wrong order: the version is resolved before the baseline is fetched.
RunOrder_resolveFirst ==
    <<"resolve", "baseline", "analysis", "artifacts", "delta", "reports", "outputs", "gate">>

\* A wrong order: the threshold is checked before the outputs are set.
RunOrder_gateFirst ==
    <<"baseline", "resolve", "analysis", "artifacts", "delta", "reports", "gate", "outputs">>

\* The order in which run() goes through its stages: downloadBaselineArtifact
\* (main.ts 212-222), resolveVersion and the subprocesses (runBranchNarrator,
\* main.ts 225), uploadArtifacts / uploadSarif (249-264), the delta counts
\* (269-275), summary and comment (290-324), setOutputs (332-346), the
\* fail-on-score check (380-389).
RunOrder ==
    <<"baseline", "resolve", "analysis", "artifacts", "delta", "reports", "outputs", "gate">>

PosIn(order, stage) == CHOOSE k \in DOMAIN order : order[k] = stage

\* The stage that follows `stage`; after the last one comes the finally block.
StageAfter(stage) ==
    IF PosIn(RunOrder, stage) = Len(RunOrder) THEN "finally"
    ELSE RunOrder[PosIn(RunOrder, stage) + 1]

\* A wrong exit: the run ends without going through the cleanup.
Finally_noCleanup == "done"

\* finally { await cleanupTempArtifacts() }: only a set tempArtifactDir is removed.
Finally == IF tempArtifactDir = NoPath THEN "done" ELSE "cleanup"

Goto(stage) == IF stage = "finally" THEN Finally ELSE stage

Begin(stage) == <<"begin", stage>>
End(stage) == <<"end", stage>>

\* A wrong join: only the facts command's failure rejects the await.
Rejected_factsOnly(status) == status["facts"] \in {"exit_nonzero", "bad_json"}

\* Promise.all rejects as soon as one of its promises rejects.
Rejected(status) == \E t \in Tasks : status[t] \in {"exit_nonzero", "bad_json"}

\* Promise.all fulfils when every spawned command has fulfilled.
Fulfilled(status) == \A t \in Spawned(inputs) : status[t] = "ok"

\* A wrong gate: the boundary is exclusive.
GateFires_exclusive(threshold, riskScore) ==
    threshold # Undefined /\ riskScore > threshold

\* main.ts 381-384: inputs.failOnScore !== undefined && riskScore >= failOnScore
GateFires(threshold, riskScore) ==
    threshold # Undefined /\ riskScore >= threshold

\* main.ts 172-210: getInputs, the PR context or the explicit range.
Start ==
    /\ pc = "start"
    /\ IF ~inputs.isPR /\ (inputs.baseSha = "" \/ inputs.headSha = "")
       THEN /\ failed' = "error"
            /\ pc' = Finally
       ELSE /\ pc' = RunOrder[1]
            /\ UNCHANGED failed
    /\ UNCHANGED <<inputs, tasks, taskOut, resolvedVersion, tempArtifactDir, tempDirOnDisk,
                   baselinePath, artifacts, sarifArtifactName, delta, summary, outputs,
                   gateEvaluated, log>>
    /\ UNCHANGED <<ghVars, pubVars, deltaVars, callVars>>

\* main.ts 214: no baseline-artifact input, nothing is fetched.
SkipBaseline ==
    /\ pc = "baseline"
    /\ ~inputs.baselineArtifact
    /\ pc' = Goto(StageAfter("baseline"))
    /\ UNCHANGED <<inputs, tasks, taskOut, resolvedVersion, tempArtifactDir, tempDirOnDisk,
                   baselinePath, artifacts, sarifArtifactName, delta, summary, outputs,
                   failed, gateEvaluated, log>>
    /\ UNCHANGED <<ghVars, pubVars, deltaVars, callVars>>

\* The configured baseline-artifact name and the two artifacts looked for.
BaselineName == "baseline"
BaselineFactsName == BaselineName \o "-facts"
BaselineRiskName == BaselineName \o "-risk-report"

\* What listArtifacts may answer, and where downloadBaselineArtifact may meet
\* an error: nowhere, in fs.mkdtemp, in listArtifacts, in the mkdir/download of
\* either artifact, in the fs.access of either document.
Listings == SUBSET {BaselineFactsName, BaselineRiskName, FactsArtifactName}
FailPoints == {"none", "mkdtemp", "list", "download_facts", "download_risk",
               "access_facts", "access_risk"}

NoBaseline == [found |-> FALSE]

\* A wrong fetch: the facts artifact alone is enough, the risk-report side is
\* neither required nor verified.
downloadBaselineArtifact_partial(dir, listed, failAt) ==
    LET made == IF dir = NoPath /\ failAt # "mkdtemp" THEN TempDir ELSE dir
    IN [dir |-> made,
        created |-> (dir = NoPath /\ failAt # "mkdtemp"),
        threw |-> FALSE,
        result |-> IF made = NoPath \/ failAt \in {"list", "download_facts", "access_facts"}
                      \/ BaselineFactsName \notin listed
                   THEN NoBaseline
                   ELSE [found |-> TRUE, factsPath |-> FactsPathIn(made),
                         riskReportPath |-> RiskReportPathIn(made)]]

\* downloadBaselineArtifact (github.ts 159-229), entered with the module-level
\* tempArtifactDir = dir.  The staging directory is made when there is none
\* (170-174); the artifacts are listed (183-185); when either is not listed
\* null is returned (190-196); both are downloaded (199-210) and both
\* documents accessed (216-217).  Any error lands in the catch, which returns
\* null (223-228): nothing is thrown to the caller.
downloadBaselineArtifact(dir, listed, failAt) ==
    LET made == IF dir = NoPath /\ failAt # "mkdtemp" THEN TempDir ELSE dir
    IN [dir |-> made,
        created |-> (dir = NoPath /\ failAt # "mkdtemp"),
        threw |-> FALSE,
        result |-> IF made = NoPath THEN NoBaseline
                   ELSE IF failAt = "list" THEN NoBaseline
                   ELSE IF BaselineFactsName \notin listed \/ BaselineRiskName \notin listed
                        THEN NoBaseline
                   ELSE IF failAt # "none" THEN NoBaseline
                   ELSE [found |-> TRUE, factsPath |-> FactsPathIn(made),
                         riskReportPath |-> RiskReportPathIn(made)]]

\* main.ts 213-222: the baseline is fetched and, when there is one, its facts
\* path kept as baselinePath.  An error thrown by the fetch would land in
\* run()'s catch.
DownloadBaseline(listed, failAt) ==
    /\ pc = "baseline"
    /\ inputs.baselineArtifact
    /\ LET r == downloadBaselineArtifact(tempArtifactDir, listed, failAt)
       IN /\ tempArtifactDir' = r.dir
          /\ tempDirOnDisk' = (tempDirOnDisk \/ r.created)
          /\ mkdtempCalls' = mkdtempCalls + (IF r.created THEN 1 ELSE 0)
          /\ baselinePath' = IF r.result.found THEN r.result.factsPath ELSE NoPath
          /\ log' = log \o <<Begin("baseline"), End("baseline")>>
          /\ IF r.threw
             THEN /\ failed' = "error"
                  /\ pc' = IF r.dir = NoPath THEN "done" ELSE "cleanup"
             ELSE /\ pc' = StageAfter("baseline")
                  /\ UNCHANGED failed
    /\ UNCHANGED <<inputs, tasks, taskOut, resolvedVersion, artifacts, sarifArtifactName,
                   delta, summary, outputs, gateEvaluated>>
    /\ UNCHANGED <<options, invoked, versionLookup, cleanupCalls, fetch, runResult>>
    /\ UNCHANGED <<ghVars, pubVars, deltaVars>>

\* The RunnerOptions run() hands to runBranchNarrator (main.ts 225-244), for
\* the range, baseline and since-strict of this run and the action's defaults
\* otherwise (no file filter, no size limit).  Left out: profile, redact,
\* sarifFile, the risk categories, maxFindings, explainScore, maxEvidenceLines.
RunnerOptionsOf(i, since) ==
    [set |-> TRUE, version |-> RequestedVersion,
     baseSha |-> RangeOf(i).base, headSha |-> RangeOf(i).head,
     sarifUpload |-> i.sarifUpload, baselinePath |-> since, sinceStrict |-> i.sinceStrict,
     exclude |-> <<>>, include |-> <<>>,
     maxFileBytes |-> Undefined, maxDiffBytes |-> Undefined]

\* path.replace(from, to) on a path given by its segments, none of which
\* contains another: the first segment equal to `from` is replaced.
ReplaceFirst(path, from, to) ==
    LET hits == {k \in DOMAIN path : path[k] = from}
    IN IF hits = {} THEN path
       ELSE LET k == CHOOSE x \in hits : \A y \in hits : x <= y
            IN [path EXCEPT ![k] = to]

\* The arguments of `branch-narrator facts` (runFacts, runner.ts 95-164).
runFacts(o) ==
    [spawned |-> TRUE, command |-> "facts", version |-> o.version,
     base |-> o.baseSha, head |-> o.headSha,
     since |-> o.baselinePath,
     sinceStrict |-> (o.baselinePath # NoPath /\ o.sinceStrict),
     exclude |-> o.exclude, include |-> o.include,
     maxFileBytes |-> o.maxFileBytes, maxDiffBytes |-> o.maxDiffBytes]

\* The arguments of `branch-narrator risk-report` (runRiskReport, runner.ts
\* 169-239): the range and the baseline, whose path is derived from the facts
\* path; options.exclude, options.include, maxFileBytes and maxDiffBytes are
\* not read (its --only / --exclude carry risk categories).
runRiskReport(o) ==
    [spawned |-> TRUE, command |-> "risk-report", version |-> o.version,
     base |-> o.baseSha, head |-> o.headSha,
     since |-> IF o.baselinePath = NoPath THEN NoPath
               ELSE ReplaceFirst(o.baselinePath, "facts.json", "risk-report.json"),
     sinceStrict |-> (o.baselinePath # NoPath /\ o.sinceStrict),
     exclude |-> <<>>, include |-> <<>>,
     maxFileBytes |-> Undefined, maxDiffBytes |-> Undefined]

\* The arguments of `branch-narrator facts --format sarif` (runFactsSarif,
\* runner.ts 244-300): no --since.
runFactsSarif(o) ==
    [spawned |-> TRUE, command |-> "sarif", version |-> o.version,
     base |-> o.baseSha, head |-> o.headSha,
     since |-> NoPath, sinceStrict |-> FALSE,
     exclude |-> o.exclude, include |-> o.include,
     maxFileBytes |-> o.maxFileBytes, maxDiffBytes |-> o.maxDiffBytes]

\* The arguments of `branch-narrator pr-body` (runPrBody, runner.ts 305-350).
runPrBody(o) ==
    [spawned |-> TRUE, command |-> "pr-body", version |-> o.version,
     base |-> o.baseSha, head |-> o.headSha,
     since |-> NoPath, sinceStrict |-> FALSE,
     exclude |-> o.exclude, include |-> o.include,
     maxFileBytes |-> o.maxFileBytes, maxDiffBytes |-> o.maxDiffBytes]

CommandOf(t, o) ==
    CASE t = "facts" -> runFacts(o)
      [] t = "risk-report" -> runRiskReport(o)
      [] t = "pr-body" -> runPrBody(o)
      [] t = "sarif" -> runFactsSarif(o)

\* How the npm view of resolveVersion may end: an answer, an error exit (a
\* network failure included), the 15 s timeout.
Lookups == {"ok", "error_exit", "timeout"}

\* A wrong resolver: a failed lookup is thrown to the caller.
resolveVersion_rethrows(requestedVersion, lookup) ==
    [threw |-> (lookup # "ok"),
     version |-> IF lookup = "ok" THEN RegistryVersion ELSE ""]

\* resolveVersion (runner.ts 20-31): the registry's answer, or the requested
\* version when the lookup fails in any way (catch, 27-30); nothing is thrown.
resolveVersion(requestedVersion, lookup) ==
    [threw |-> FALSE,
     version |-> IF lookup = "ok" THEN RegistryVersion ELSE requestedVersion]

\* runBranchNarrator is called with the run's options (main.ts 225-244) and
\* resolves the version first (runner.ts 358-367).  An error thrown by the
\* resolver would be rethrown by runBranchNarrator (394-397) into run()'s catch.
ResolveVersion(lookup) ==
    /\ pc = "resolve"
    /\ options' = RunnerOptionsOf(inputs, baselinePath)
    /\ versionLookup' = lookup
    /\ log' = log \o <<Begin("resolve"), End("resolve")>>
    /\ LET r == resolveVersion(options'.version, lookup)
       IN IF r.threw
          THEN /\ failed' = "error"
               /\ pc' = Finally
               /\ UNCHANGED resolvedVersion
          ELSE /\ resolvedVersion' = r.version
               /\ pc' = Goto(StageAfter("resolve"))
               /\ UNCHANGED failed
    /\ UNCHANGED <<inputs, tasks, taskOut, tempArtifactDir, tempDirOnDisk, baselinePath,
                   artifacts, sarifArtifactName, delta, summary, outputs, gateEvaluated>>
    /\ UNCHANGED <<invoked, mkdtempCalls, cleanupCalls, fetch, runResult>>
    /\ UNCHANGED <<ghVars, pubVars, deltaVars>>

\* runBranchNarrator 372-383: every command is spawned, then all are awaited.
SpawnAnalysis ==
    /\ pc = "analysis"
    /\ tasks' = [t \in Tasks |-> IF t \in Spawned(inputs) THEN "running" ELSE tasks[t]]
    /\ invoked' = [t \in Tasks |->
                     IF t \in Spawned(inputs)
                     THEN CommandOf(t, RunnerOptionsOf(inputs, baselinePath))
                     ELSE invoked[t]]
    /\ log' = Append(log, Begin("analysis"))
    /\ pc' = "await_all"
    /\ UNCHANGED <<inputs, taskOut, resolvedVersion, tempArtifactDir, tempDirOnDisk,
                   baselinePath, artifacts, sarifArtifactName, delta, summary, outputs,
                   failed, gateEvaluated>>
    /\ UNCHANGED <<options, versionLookup, mkdtempCalls, cleanupCalls, fetch, runResult>>
    /\ UNCHANGED <<ghVars, pubVars, deltaVars>>

\* The two documents downloadBaselineArtifact stores.
StoredDocuments == {FactsPathIn(TempDir), RiskReportPathIn(TempDir)}

\* The analyzer exits with an error on a scope mismatch when it was given
\* --since-strict with a baseline document it can read (README, since-strict:
\* "Exit with error on scope mismatch in delta mode").
ScopeRejects(t) ==
    /\ invoked[t].spawned
    /\ invoked[t].sinceStrict
    /\ invoked[t].since \in StoredDocuments
    /\ inputs.baselineScope = "unrelated"

\* One subprocess ends (runCommand 64-90, then JSON.parse for facts and
\* risk-report).  While run() awaits Promise.all, a rejection is thrown into
\* run()'s catch at once (setFailed, then the finally); the last fulfilment
\* lets run() go on.  A subprocess that ends after the await was rejected is
\* no longer observed by anyone: it only stops running ("exited").
SubprocessExit(t, outcome, result) ==
    /\ tasks[t] = "running"
    /\ outcome \in TaskOutcomes(t)
    /\ ScopeRejects(t) => outcome = "exit_nonzero"
    /\ result \in TaskResults(t, baselinePath)
    /\ tasks' = [tasks EXCEPT ![t] = IF pc = "await_all" THEN outcome ELSE "exited"]
    /\ taskOut' = IF outcome = "ok" /\ pc = "await_all"
                  THEN [taskOut EXCEPT ![t] = result] ELSE taskOut
    /\ IF pc = "await_all" /\ Rejected(tasks')
       THEN /\ failed' = "error"
            /\ log' = Append(log, End("analysis"))
            /\ pc' = Finally
       ELSE IF pc = "await_all" /\ Fulfilled(tasks')
       THEN /\ log' = Append(log, End("analysis"))
            /\ pc' = Goto(StageAfter("analysis"))
            /\ UNCHANGED failed
       ELSE UNCHANGED <<failed, log, pc>>
    /\ UNCHANGED <<inputs, resolvedVersion, tempArtifactDir, tempDirOnDisk, baselinePath,
                   artifacts, sarifArtifactName, delta, summary, outputs, gateEvaluated>>
    /\ UNCHANGED <<ghVars, pubVars, deltaVars, callVars>>


RunCaller == "run"
Publishers == {"p1", "p2"}
Callers == {RunCaller} \cup Publishers

NoSummary == <<>>
NoOutputs == <<>>

\* uploadArtifacts (github.ts 49-93), called at main.ts 250.  It has no catch:
\* a failure is rethrown into run()'s catch.
\*   ok          both artifacts uploaded
\*   fail_first  mkdtemp, writeFile or the facts upload throws
\*   fail_risk   the facts artifact is uploaded, the risk-report upload throws
UploadArtifacts(outcome) ==
    /\ pc = "artifacts"
    /\ artifacts' = CASE outcome = "ok" -> artifacts \cup {FactsArtifactName, RiskArtifactName}
                      [] outcome = "fail_risk" -> artifacts \cup {FactsArtifactName}
                      [] outcome = "fail_first" -> artifacts
    /\ IF outcome # "ok"
       THEN /\ failed' = "error"
            /\ log' = log \o <<Begin("artifacts"), End("artifacts")>>
            /\ pc' = Finally
       ELSE IF inputs.sarifUpload /\ taskOut["sarif"].done
       THEN /\ log' = Append(log, Begin("artifacts"))
            /\ pc' = "sarif"
            /\ UNCHANGED failed
       ELSE /\ log' = log \o <<Begin("artifacts"), End("artifacts")>>
            /\ pc' = Goto(StageAfter("artifacts"))
            /\ UNCHANGED failed
    /\ UNCHANGED <<inputs, tasks, taskOut, resolvedVersion, tempArtifactDir, tempDirOnDisk,
                   baselinePath, sarifArtifactName, delta, summary, outputs, gateEvaluated>>
    /\ UNCHANGED <<ghVars, pubVars, deltaVars, callVars>>

\* uploadSarif (github.ts 107-144), called at main.ts 258-264: a failure is
\* caught and warned; the artifact name is returned either way.
UploadSarif(ok) ==
    /\ pc = "sarif"
    /\ artifacts' = IF ok THEN artifacts \cup {SarifArtifactName} ELSE artifacts
    /\ sarifArtifactName' = SarifArtifactName
    /\ log' = Append(log, End("artifacts"))
    /\ pc' = Goto(StageAfter("artifacts"))
    /\ UNCHANGED <<inputs, tasks, taskOut, resolvedVersion, tempArtifactDir, tempDirOnDisk,
                   baselinePath, delta, summary, outputs, failed, gateEvaluated>>
    /\ UNCHANGED <<ghVars, pubVars, deltaVars, callVars>>

\* Wrong counts: a delta whose scope does not match is dropped.
DeltaCounts_scopeOnly(facts) ==
    IF facts.delta.present /\ facts.delta.scopeMatch
    THEN [deltaNewFindings |-> Len(facts.delta.newFindings),
          deltaResolvedFindings |-> Len(facts.delta.resolvedFindings)]
    ELSE [deltaNewFindings |-> Undefined, deltaResolvedFindings |-> Undefined]

\* Wrong counts: the two lists are taken the wrong way round.
DeltaCounts_swapped(facts) ==
    IF facts.delta.present
    THEN [deltaNewFindings |-> Len(facts.delta.resolvedFindings),
          deltaResolvedFindings |-> Len(facts.delta.newFindings)]
    ELSE [deltaNewFindings |-> Undefined, deltaResolvedFindings |-> Undefined]

\* main.ts 266-275: deltaNewFindings and deltaResolvedFindings are the lengths
\* of facts.delta.newFindings and facts.delta.resolvedFindings when facts
\* carries a delta, undefined otherwise; scopeMatch is not read.
DeltaCounts(facts) ==
    IF facts.delta.present
    THEN [deltaNewFindings |-> Len(facts.delta.newFindings),
          deltaResolvedFindings |-> Len(facts.delta.resolvedFindings)]
    ELSE [deltaNewFindings |-> Undefined, deltaResolvedFindings |-> Undefined]

\* main.ts 269-275: the delta counts, when facts carries a delta.
ComputeDelta ==
    /\ pc = "delta"
    /\ delta' = DeltaCounts(taskOut["facts"])
    /\ log' = log \o <<Begin("delta"), End("delta")>>
    /\ pc' = Goto(StageAfter("delta"))
    /\ UNCHANGED <<inputs, tasks, taskOut, resolvedVersion, tempArtifactDir, tempDirOnDisk,
                   baselinePath, artifacts, sarifArtifactName, summary, outputs, failed,
                   gateEvaluated>>
    /\ UNCHANGED <<ghVars, pubVars, deltaVars, callVars>>

\* The report text of this run.
RunContent == ReportContent(resolvedVersion, taskOut["risk-report"].riskScore, delta)

\* main.ts 301-303: a comment is attempted on a pull request, when
\* shouldPostComment allows it and GITHUB_TOKEN is set.
CommentAttempted(i) ==
    i.isPR /\ shouldPostComment(i.isFork, i.comment) /\ i.hasToken

\* main.ts 290-298 and writeStepSummary (github.ts 22-33): a failed write is
\* caught and warned.  Then main.ts 300-324 decides on the comment.
WriteStepSummary(ok) ==
    /\ pc = "reports"
    /\ summary' = IF ok THEN renderStepSummary(RunContent) ELSE summary
    /\ IF CommentAttempted(inputs)
       THEN /\ log' = Append(log, Begin("reports"))
            /\ pc' = "comment_list"
       ELSE /\ log' = log \o <<Begin("reports"), End("reports")>>
            /\ pc' = Goto(StageAfter("reports"))
    /\ UNCHANGED <<inputs, tasks, taskOut, resolvedVersion, tempArtifactDir, tempDirOnDisk,
                   baselinePath, artifacts, sarifArtifactName, delta, outputs, failed,
                   gateEvaluated>>
    /\ UNCHANGED <<ghVars, pubVars, deltaVars, callVars>>

\* createOrUpdateComment 334-342: the lookup.
CommentList(ok) ==
    /\ pc = "comment_list"
    /\ existingCommentId' =
           [existingCommentId EXCEPT ![RunCaller] = findExistingComment(comments, ok)]
    /\ pc' = "comment_act"
    /\ UNCHANGED <<inputs, tasks, taskOut, resolvedVersion, tempArtifactDir, tempDirOnDisk,
                   baselinePath, artifacts, sarifArtifactName, delta, summary, outputs,
                   failed, gateEvaluated, log>>
    /\ UNCHANGED <<comments, pubVars, deltaVars, callVars>>


\* createOrUpdateComment 344-386, awaited at main.ts 315-321: update the
\* comment found or create one; its boolean answer is not read by run().  An
\* error thrown by it would land in run()'s catch.
CommentAct(ok) ==
    /\ pc = "comment_act"
    /\ log' = Append(log, End("reports"))
    /\ LET r == createOrUpdateComment(comments, existingCommentId[RunCaller],
                                      renderPRComment(RunContent), ok)
       IN /\ comments' = r.comments
          /\ IF r.threw
             THEN /\ failed' = "error"
                  /\ pc' = Finally
             ELSE /\ pc' = Goto(StageAfter("reports"))
                  /\ UNCHANGED failed
    /\ UNCHANGED <<inputs, tasks, taskOut, resolvedVersion, tempArtifactDir, tempDirOnDisk,
                   baselinePath, artifacts, sarifArtifactName, delta, summary, outputs,
                   gateEvaluated>>
    /\ UNCHANGED <<existingCommentId, pubVars, deltaVars, callVars>>

\* Wrong outputs: an undefined delta count is set as 0.
ActionOutputs_zeroDelta(riskScore, sarifName, d) ==
    ("risk-score" :> ToString(riskScore))
    @@ ("facts-artifact-name" :> FactsArtifactName)
    @@ ("risk-artifact-name" :> RiskArtifactName)
    @@ (IF sarifName # "" THEN ("sarif-artifact-name" :> sarifName) ELSE <<>>)
    @@ ("delta-new-findings" :>
          (IF d.deltaNewFindings # Undefined THEN ToString(d.deltaNewFindings) ELSE "0"))
    @@ ("delta-resolved-findings" :>
          (IF d.deltaResolvedFindings # Undefined THEN ToString(d.deltaResolvedFindings) ELSE "0"))

\* The outputs set by setOutputs (main.ts 144-166) from the ActionOutputs built
\* at main.ts 333-345; the optional ones only when defined.  (risk-level,
\* flag-count, findings-count, has-blocking and score-breakdown are copied
\* from the analyzer's documents the same way and are left out.)
ActionOutputs(riskScore, sarifName, d) ==
    ("risk-score" :> ToString(riskScore))
    @@ ("facts-artifact-name" :> FactsArtifactName)
    @@ ("risk-artifact-name" :> RiskArtifactName)
    @@ (IF sarifName # "" THEN ("sarif-artifact-name" :> sarifName) ELSE <<>>)
    @@ (IF d.deltaNewFindings # Undefined
        THEN ("delta-new-findings" :> ToString(d.deltaNewFindings)) ELSE <<>>)
    @@ (IF d.deltaResolvedFindings # Undefined
        THEN ("delta-resolved-findings" :> ToString(d.deltaResolvedFindings)) ELSE <<>>)

\* main.ts 332-346
SetOutputs ==
    /\ pc = "outputs"
    /\ outputs' = ActionOutputs(taskOut["risk-report"].riskScore, sarifArtifactName, delta)
    /\ log' = log \o <<Begin("outputs"), End("outputs")>>
    /\ pc' = Goto(StageAfter("outputs"))
    /\ UNCHANGED <<inputs, tasks, taskOut, resolvedVersion, tempArtifactDir, tempDirOnDisk,
                   baselinePath, artifacts, sarifArtifactName, delta, summary, failed,
                   gateEvaluated>>
    /\ UNCHANGED <<ghVars, pubVars, deltaVars, callVars>>

\* main.ts 380-391: the fail-on-score check; when it fires, setFailed and return.
Gate ==
    /\ pc = "gate"
    /\ gateEvaluated' = TRUE
    /\ IF GateFires(inputs.failOnScore, taskOut["risk-report"].riskScore)
       THEN /\ failed' = "gate"
            /\ pc' = Finally
       ELSE /\ pc' = Goto(StageAfter("gate"))
            /\ UNCHANGED failed
    /\ log' = log \o <<Begin("gate"), End("gate")>>
    /\ UNCHANGED <<inputs, tasks, taskOut, resolvedVersion, tempArtifactDir, tempDirOnDisk,
                   baselinePath, artifacts, sarifArtifactName, delta, summary, outputs>>
    /\ UNCHANGED <<ghVars, pubVars, deltaVars, callVars>>

\* cleanupTempArtifacts (github.ts 234-243), awaited in run()'s finally: an
\* fs.rm error is ignored and the module-level reference is reset.
Cleanup(ok) ==
    /\ pc = "cleanup"
    /\ tempDirOnDisk' = IF ok THEN FALSE ELSE tempDirOnDisk
    /\ tempArtifactDir' = NoPath
    /\ cleanupCalls' = cleanupCalls + 1
    /\ pc' = "done"
    /\ UNCHANGED <<inputs, tasks, taskOut, resolvedVersion, baselinePath, artifacts,
                   sarifArtifactName, delta, summary, outputs, failed, gateEvaluated, log>>
    /\ UNCHANGED <<options, invoked, versionLookup, mkdtempCalls, fetch, runResult>>
    /\ UNCHANGED <<ghVars, pubVars, deltaVars>>

\* Nothing handed over, spawned or fetched yet.
NoOptions == [set |-> FALSE]
NoArgs == [spawned |-> FALSE]
NoFetch == [called |-> FALSE]
NoResult == [returned |-> FALSE]

\* A report comment left by an earlier run, and other people's comments.
OldReport == renderPRComment("v1.2.3 score 10")
PlainBody == <<"LGTM">>
QuoteBody == <<"as the bot said:", QuotedMarkerLine>>

IdleRun ==
    /\ tasks = [t \in Tasks |-> "not_spawned"]
    /\ taskOut = [t \in Tasks |-> NoOut]
    /\ resolvedVersion = ""
    /\ tempArtifactDir = NoPath
    /\ tempDirOnDisk = FALSE
    /\ baselinePath = NoPath
    /\ artifacts = {}
    /\ sarifArtifactName = ""
    /\ delta = [deltaNewFindings |-> Undefined, deltaResolvedFindings |-> Undefined]
    /\ summary = NoSummary
    /\ outputs = NoOutputs
    /\ failed = None
    /\ gateEvaluated = FALSE
    /\ log = <<>>
    /\ options = NoOptions
    /\ invoked = [t \in Tasks |-> NoArgs]
    /\ versionLookup = None
    /\ mkdtempCalls = 0
    /\ cleanupCalls = 0
    /\ runResult = NoResult

IdlePublishers ==
    /\ pubPc = [p \in Publishers |-> "idle"]
    /\ pubBody = [p \in Publishers |-> <<>>]
    /\ pubCalls = [p \in Publishers |-> <<>>]
    /\ pubSolo = [p \in Publishers |-> FALSE]
    /\ soloDone = 0
    /\ apiFailed = FALSE
    /\ preExisting = Len(comments)
    /\ lastPosted = <<>>

IdleFetch == fetch = NoFetch

IdleDelta ==
    /\ baselineSnap = <<>>
    /\ currentSnap = <<>>
    /\ deltaResult = NoDelta
    /\ reordered = FALSE

\* The state in which run() is entered: a fresh process (tempArtifactDir is
\* null), on a pull request that has no comment yet or an earlier report.
Init ==
    /\ inputs \in InputSpace
    /\ pc = "start"
    /\ IdleRun
    /\ comments \in (IF inputs.isPR
                     THEN {<<>>, <<[id |-> 1, body |-> OldReport]>>}
                     ELSE {<<>>})
    /\ existingCommentId = [c \in Callers |-> NullId]
    /\ IdlePublishers
    /\ IdleDelta
    /\ IdleFetch

Next ==
    \/ Start
    \/ SkipBaseline
    \/ \E listed \in Listings : \E failAt \in FailPoints : DownloadBaseline(listed, failAt)
    \/ \E lookup \in Lookups : ResolveVersion(lookup)
    \/ SpawnAnalysis
    \/ \E t \in Tasks : \E outcome \in TaskOutcomes(t) :
          \E result \in TaskResults(t, baselinePath) : SubprocessExit(t, outcome, result)
    \/ \E outcome \in {"ok", "fail_first", "fail_risk"} : UploadArtifacts(outcome)
    \/ \E ok \in BOOLEAN : UploadSarif(ok)
    \/ ComputeDelta
    \/ \E ok \in BOOLEAN : WriteStepSummary(ok)
    \/ \E ok \in BOOLEAN : CommentList(ok)
    \/ \E ok \in BOOLEAN : CommentAct(ok)
    \/ SetOutputs
    \/ Gate
    \/ \E ok \in BOOLEAN : Cleanup(ok)

Spec == Init /\ [][Next]_vars


(***************************************************************************)
(* SpecDelta: compare called on bounded snapshots, whose findings may be   *)
(* listed in another order between two calls.                              *)
(***************************************************************************)
\* No run of the action takes part in SpecDelta and SpecPublish.
OffInputs ==
    [isPR |-> TRUE, isFork |-> FALSE, baseSha |-> "", headSha |-> "", comment |-> TRUE,
     hasToken |-> TRUE, failOnScore |-> Undefined, sarifUpload |-> FALSE,
     baselineArtifact |-> FALSE, sinceStrict |-> FALSE, baselineScope |-> "related"]

NoRun ==
    /\ inputs = OffInputs
    /\ pc = "off"
    /\ IdleRun

InitDelta ==
    /\ baselineSnap \in Snapshots
    /\ currentSnap \in Snapshots
    /\ deltaResult = NoDelta
    /\ reordered = FALSE
    /\ NoRun
    /\ comments = <<>>
    /\ existingCommentId = [c \in Callers |-> NullId]
    /\ IdlePublishers
    /\ IdleFetch

\* DeltaComparator.compare(baseline, current)
Compare ==
    /\ deltaResult' = compare(baselineSnap, currentSnap)
    /\ reordered' = FALSE
    /\ UNCHANGED <<baselineSnap, currentSnap>>
    /\ UNCHANGED <<runVars, ghVars, pubVars, callVars>>

\* The same snapshot, its findings listed in another internal order.
ReorderBaseline(i) ==
    /\ deltaResult.present
    /\ i \in 1..(Len(baselineSnap) - 1)
    /\ baselineSnap' = SwapAt(baselineSnap, i)
    /\ reordered' = TRUE
    /\ UNCHANGED <<currentSnap, deltaResult>>
    /\ UNCHANGED <<runVars, ghVars, pubVars, callVars>>

ReorderCurrent(i) ==
    /\ deltaResult.present
    /\ i \in 1..(Len(currentSnap) - 1)
    /\ currentSnap' = SwapAt(currentSnap, i)
    /\ reordered' = TRUE
    /\ UNCHANGED <<baselineSnap, deltaResult>>
    /\ UNCHANGED <<runVars, ghVars, pubVars, callVars>>

NextDelta ==
    \/ Compare
    \/ \E i \in 1..MaxFindings : ReorderBaseline(i)
    \/ \E i \in 1..MaxFindings : ReorderCurrent(i)

SpecDelta == InitDelta /\ [][NextDelta]_vars

\* C8: the three sets of a delta result are pairwise disjoint and their union
\* is keys(baseline) union keys(current).
C8_DeltaPartitions ==
    deltaResult.present =>
        /\ deltaResult.newFindingIds \cap deltaResult.resolvedFindingIds = {}
        /\ deltaResult.newFindingIds \cap deltaResult.unchangedFindingIds = {}
        /\ deltaResult.resolvedFindingIds \cap deltaResult.unchangedFindingIds = {}
        /\ deltaResult.newFindingIds \cup deltaResult.resolvedFindingIds
               \cup deltaResult.unchangedFindingIds
           = KeysOf(baselineSnap) \cup KeysOf(currentSnap)

\* C8 witness: a compare whose three sets are all non-empty.
C8_Witness ==
    /\ deltaResult.present
    /\ deltaResult.newFindingIds # {}
    /\ deltaResult.resolvedFindingIds # {}
    /\ deltaResult.unchangedFindingIds # {}

\* C9: new = keys(current) minus keys(baseline), resolved = keys(baseline)
\* minus keys(current), unchanged = their intersection; for baseline {A, B, C}
\* and current {B, C, D} (keys 1..4) that is new {D}, resolved {A}, unchanged
\* {B, C}.
C9_DeltaSets ==
    deltaResult.present =>
        /\ \A k \in FindingKeys :
              /\ k \in deltaResult.newFindingIds
                    <=> (k \in Range(currentSnap) /\ k \notin Range(baselineSnap))
              /\ k \in deltaResult.resolvedFindingIds
                    <=> (k \in Range(baselineSnap) /\ k \notin Range(currentSnap))
              /\ k \in deltaResult.unchangedFindingIds
                    <=> (k \in Range(baselineSnap) /\ k \in Range(currentSnap))
        /\ deltaResult.newFindingIds \cup deltaResult.resolvedFindingIds
               \cup deltaResult.unchangedFindingIds \subseteq FindingKeys
        /\ (Range(baselineSnap) = {1, 2, 3} /\ Range(currentSnap) = {2, 3, 4}) =>
              /\ deltaResult.newFindingIds = {4}
              /\ deltaResult.resolvedFindingIds = {1}
              /\ deltaResult.unchangedFindingIds = {2, 3}

\* C9 witness: the scenario baseline {A, B, C}, current {B, C, D} was compared.
C9_Witness ==
    /\ deltaResult.present
    /\ baselineSnap = <<1, 2, 3>>
    /\ currentSnap = <<2, 3, 4>>

\* C10: the sets an earlier call returned are the sets compare returns for
\* the same snapshots with their findings listed in any other order.
C10_OrderIndependent ==
    deltaResult.present => deltaResult = compare(baselineSnap, currentSnap)

\* C10 witness: both snapshots hold several findings and were reordered after
\* the call whose result is kept.
C10_Witness ==
    /\ deltaResult.present
    /\ reordered
    /\ Len(baselineSnap) >= 2
    /\ Len(currentSnap) >= 2
    /\ deltaResult.unchangedFindingIds # {}


(***************************************************************************)
(* SpecPublish: createOrUpdateComment called again and again by one        *)
(* publisher on one pull request.  SpecRace: the same calls made by two    *)
(* runs on the same pull request, their lookups and writes interleaving.   *)
(***************************************************************************)
\* Bounds: calls per publisher, and comments of interest already on the PR.
MaxCalls == 2
MaxPre == 2

\* Report texts a call may be given.
Contents == {"v1.2.3 score 70", "v1.2.3 score 71"}

\* Other people's comments in front of the comments of interest: none, one
\* short of a page, a full page.
Paddings == {0, PerPage - 1, PerPage}

Numbered(bodies) == [i \in DOMAIN bodies |-> [id |-> i, body |-> bodies[i]]]

PrePopulated ==
    {Numbered([i \in 1..n |-> PlainBody] \o tail) :
        n \in Paddings, tail \in SeqsUpTo({PlainBody, OldReport, QuoteBody}, MaxPre)}

\* createOrUpdateComment is entered (github.ts 326-342): the body is the
\* rendered report, the lookup request is sent.
PubCall(p, content) ==
    /\ pubPc[p] = "idle"
    /\ Len(pubCalls[p]) < MaxCalls
    /\ pubBody' = [pubBody EXCEPT ![p] = renderPRComment(content)]
    /\ pubPc' = [pubPc EXCEPT ![p] = "listing"]
    /\ pubSolo' = IF \A q \in Publishers \ {p} : pubPc[q] = "idle"
                  THEN [pubSolo EXCEPT ![p] = TRUE]
                  ELSE [q \in Publishers |-> FALSE]
    /\ UNCHANGED <<pubCalls, soloDone, apiFailed, preExisting, lastPosted>>
    /\ UNCHANGED <<runVars, ghVars, deltaVars, callVars>>

\* findExistingComment answers (github.ts 286-313).
PubList(p, ok) ==
    /\ pubPc[p] = "listing"
    /\ existingCommentId' = [existingCommentId EXCEPT ![p] = findExistingComment(comments, ok)]
    /\ apiFailed' = (apiFailed \/ ~ok)
    /\ pubPc' = [pubPc EXCEPT ![p] = "acting"]
    /\ UNCHANGED <<pubBody, pubCalls, pubSolo, soloDone, preExisting, lastPosted>>
    /\ UNCHANGED <<runVars, comments, deltaVars, callVars>>

\* updateComment or createComment answers (github.ts 344-386): true when the
\* request succeeded, false when it threw.
PubAct(p, ok) ==
    /\ pubPc[p] = "acting"
    /\ comments' = createOrUpdateComment(comments, existingCommentId[p], pubBody[p], ok).comments
    /\ apiFailed' = (apiFailed \/ ~ok)
    /\ pubCalls' = [pubCalls EXCEPT ![p] = Append(@, [body |-> pubBody[p], posted |-> ok])]
    /\ lastPosted' = IF ok THEN pubBody[p] ELSE lastPosted
    /\ soloDone' = IF pubSolo[p] THEN soloDone + 1 ELSE 0
    /\ pubPc' = [pubPc EXCEPT ![p] = "idle"]
    /\ UNCHANGED <<pubBody, pubSolo, preExisting>>
    /\ UNCHANGED <<runVars, existingCommentId, deltaVars, callVars>>

InitPublish ==
    /\ comments \in PrePopulated
    /\ existingCommentId = [c \in Callers |-> NullId]
    /\ IdlePublishers
    /\ NoRun
    /\ IdleDelta
    /\ IdleFetch

NextPublish ==
    \/ \E content \in Contents : PubCall("p1", content)
    \/ \E ok \in BOOLEAN : PubList("p1", ok)
    \/ \E ok \in BOOLEAN : PubAct("p1", ok)

SpecPublish == InitPublish /\ [][NextPublish]_vars

InitRace ==
    /\ comments \in {<<>>, Numbered(<<OldReport>>)}
    /\ existingCommentId = [c \in Callers |-> NullId]
    /\ IdlePublishers
    /\ NoRun
    /\ IdleDelta
    /\ IdleFetch

NextRace ==
    \/ \E p \in Publishers : \E content \in Contents : PubCall(p, content)
    \/ \E p \in Publishers : \E ok \in BOOLEAN : PubList(p, ok)
    \/ \E p \in Publishers : \E ok \in BOOLEAN : PubAct(p, ok)

SpecRace == InitRace /\ [][NextRace]_vars

\* C2: two calls in sequence with the same rendered content and no API
\* failure, on a pull request none of whose earlier comments bears the marker,
\* leave exactly one comment bearing the marker, its body the rendered content.
C2_TwoCallsOneComment ==
    ( /\ pubPc["p1"] = "idle"
      /\ Len(pubCalls["p1"]) = 2
      /\ ~apiFailed
      /\ pubCalls["p1"][1].body = pubCalls["p1"][2].body
      /\ \A i \in MarkerBearing(comments) : i > preExisting )
    => \E i \in DOMAIN comments :
          /\ MarkerBearing(comments) = {i}
          /\ comments[i].body = pubCalls["p1"][2].body

\* C3: with a single publisher, no step creates a comment while a comment
\* bearing the marker exists on the pull request.
C3_NoCreateWhileMarkerExists ==
    [][Len(comments') > Len(comments) => MarkerBearing(comments) = {}]_vars

\* C4: once two further calls, overlapping no other call, have completed and
\* no API call has ever failed, exactly one comment bears the marker and it
\* holds the content posted last.
C4_RaceConverges ==
    ( /\ \A p \in Publishers : pubPc[p] = "idle"
      /\ soloDone >= 2
      /\ ~apiFailed )
    => \E i \in DOMAIN comments :
          /\ MarkerBearing(comments) = {i}
          /\ comments[i].body = lastPosted


(***************************************************************************)
(* Properties of one run (Spec).                                           *)
(***************************************************************************)
\* C1: if any analysis subprocess exits non-zero, or the facts or risk-report
\* output is not valid JSON, the run ends marked failed and no artifact is
\* uploaded, no step summary written, no comment call made and no output set,
\* whatever the other subprocesses did.
C1_FailFastNothingPublished ==
    (\E t \in Tasks : tasks[t] \in {"exit_nonzero", "bad_json"})
    => /\ failed = "error"
       /\ pc \in {"cleanup", "done"}
       /\ \A st \in {"artifacts", "delta", "reports", "outputs", "gate"} :
             Begin(st) \notin Range(log)
       /\ artifacts = {}
       /\ sarifArtifactName = ""
       /\ summary = NoSummary
       /\ outputs = NoOutputs
       /\ existingCommentId[RunCaller] = NullId
       /\ Len(comments) = preExisting
       /\ \A i \in DOMAIN comments : comments[i].body = OldReport

C1_Witness ==
    /\ tasks["risk-report"] = "exit_nonzero"
    /\ tasks["facts"] = "ok"
    /\ taskOut["facts"].done
    /\ tasks["pr-body"] = "ok"
    /\ failed = "error"
    /\ pc = "done"

\* C5: once the fail-on-score check has run, the run is failed by it when a
\* threshold T is configured and the risk score S is at least T (S = T
\* included), and is not failed when S < T or no threshold is configured.
C5_GateInclusive ==
    gateEvaluated =>
        LET S == taskOut["risk-report"].riskScore
            T == inputs.failOnScore
        IN /\ (T # Undefined /\ S >= T) => failed = "gate"
           /\ (T = Undefined \/ S < T) => failed = None

C5_Witness ==
    /\ gateEvaluated
    /\ inputs.failOnScore = 70
    /\ taskOut["risk-report"].riskScore = 70
    /\ failed = "gate"
    /\ pc = "done"

\* C6: the fail-on-score check runs only after artifact upload, step summary,
\* comment attempt and outputs are over, and from the check on nothing that
\* was published changes: what a gate-failed run published is what the
\* threshold-free run published.
C6_GateAfterPublishing ==
    /\ [](gateEvaluated =>
            /\ \A st \in {"artifacts", "reports", "outputs"} : End(st) \in Range(log)
            /\ {FactsArtifactName, RiskArtifactName} \subseteq artifacts
            /\ summary \in {NoSummary, renderStepSummary(RunContent)}
            /\ CommentAttempted(inputs) => pc \notin {"comment_list", "comment_act"}
            /\ outputs # NoOutputs
            /\ outputs["risk-score"] = ToString(taskOut["risk-report"].riskScore))
    /\ [][gateEvaluated' =>
            /\ artifacts' = artifacts
            /\ summary' = summary
            /\ comments' = comments
            /\ outputs' = outputs]_vars

C6_Witness ==
    /\ gateEvaluated
    /\ failed = "gate"
    /\ pc = "done"
    /\ summary = renderStepSummary(RunContent)
    /\ \E i \in DOMAIN comments : comments[i].body = renderPRComment(RunContent)
    /\ SarifArtifactName \in artifacts
    /\ "delta-new-findings" \in DOMAIN outputs

C11_NoBaselineNoDelta ==
    /\ []((inputs.baselineArtifact /\ End("baseline") \in Range(log) /\ baselinePath = NoPath)
          => /\ "delta-new-findings" \notin DOMAIN outputs
             /\ "delta-resolved-findings" \notin DOMAIN outputs
             /\ (pc = "done" /\ failed # "error")
                => /\ \A st \in {"analysis", "artifacts", "reports", "outputs"} :
                         End(st) \in Range(log)
                   /\ {FactsArtifactName, RiskArtifactName} \subseteq artifacts
                   /\ outputs # NoOutputs)
    /\ [][(pc = "baseline" /\ inputs.baselineArtifact /\ baselinePath' = NoPath)
          => (pc' = "resolve" /\ failed' = None)]_vars

C11_Witness ==
    /\ inputs.baselineArtifact
    /\ baselinePath = NoPath
    /\ End("baseline") \in Range(log)
    /\ pc = "done"
    /\ failed = None
    /\ "risk-score" \in DOMAIN outputs


(***************************************************************************)
(* SpecBaseline: downloadBaselineArtifact called in a fresh process, over  *)
(* every listing and every point of failure, then the caller's cleanup.    *)
(***************************************************************************)
InitBaseline ==
    /\ fetch \in {[called |-> FALSE, listed |-> l, failAt |-> f] :
                    l \in Listings, f \in FailPoints}
    /\ NoRun
    /\ comments = <<>>
    /\ existingCommentId = [c \in Callers |-> NullId]
    /\ IdlePublishers
    /\ IdleDelta

\* The call and its answer (github.ts 159-229); the caller then reaches its
\* finally block (main.ts 395-398).
FetchBaseline ==
    /\ ~fetch.called
    /\ LET r == downloadBaselineArtifact(tempArtifactDir, fetch.listed, fetch.failAt)
       IN /\ fetch' = [called |-> TRUE, listed |-> fetch.listed, failAt |-> fetch.failAt,
                       threw |-> r.threw, result |-> r.result]
          /\ tempArtifactDir' = r.dir
          /\ tempDirOnDisk' = (tempDirOnDisk \/ r.created)
          /\ mkdtempCalls' = mkdtempCalls + (IF r.created THEN 1 ELSE 0)
          /\ pc' = IF r.dir = NoPath THEN "done" ELSE "cleanup"
    /\ UNCHANGED <<inputs, tasks, taskOut, resolvedVersion, baselinePath, artifacts,
                   sarifArtifactName, delta, summary, outputs, failed, gateEvaluated, log>>
    /\ UNCHANGED <<options, invoked, versionLookup, cleanupCalls, runResult>>
    /\ UNCHANGED <<ghVars, pubVars, deltaVars>>

NextBaseline ==
    \/ FetchBaseline
    \/ \E ok \in BOOLEAN : Cleanup(ok)

SpecBaseline == InitBaseline /\ [][NextBaseline]_vars

\* C12: downloadBaselineArtifact throws nothing; it returns a baseline exactly
\* when both the facts and the risk-report artifact were listed and no listing,
\* download or access error occurred, and then with both paths; in every other
\* case it returns null, never one path without the other.
C12_BaselineAllOrNothing ==
    fetch.called =>
        /\ ~fetch.threw
        /\ fetch.result.found
           <=> /\ {BaselineFactsName, BaselineRiskName} \subseteq fetch.listed
               /\ fetch.failAt = "none"
        /\ fetch.result.found
           => /\ DOMAIN fetch.result = {"found", "factsPath", "riskReportPath"}
              /\ fetch.result.factsPath = FactsPathIn(TempDir)
              /\ fetch.result.riskReportPath = RiskReportPathIn(TempDir)
        /\ ~fetch.result.found => fetch.result = NoBaseline

C12_Witness ==
    /\ fetch.called
    /\ fetch.listed = {BaselineFactsName, FactsArtifactName}
    /\ fetch.failAt = "none"
    /\ fetch.result = NoBaseline
    /\ pc = "done"


(***************************************************************************)
(* SpecArgs: the command lines runBranchNarrator builds, over the          *)
(* RunnerOptions a caller may hand to it.                                  *)
(***************************************************************************)
OptionSpace ==
    [set : {TRUE}, version : {RequestedVersion},
     baseSha : {"pr-base"}, headSha : {"pr-head"},
     sarifUpload : BOOLEAN,
     baselinePath : {NoPath, FactsPathIn(TempDir)},
     sinceStrict : BOOLEAN,
     exclude : {<<>>, <<"**/generated/**">>},
     include : {<<>>, <<"src/**">>},
     maxFileBytes : {Undefined, 1048576},
     maxDiffBytes : {Undefined, 5242880}]

InitArgs ==
    /\ options \in OptionSpace
    /\ invoked = [t \in Tasks |-> NoArgs]
    /\ versionLookup = None
    /\ mkdtempCalls = 0
    /\ cleanupCalls = 0
    /\ runResult = NoResult
    /\ IdleFetch
    /\ inputs = OffInputs
    /\ pc = "off"
    /\ tasks = [t \in Tasks |-> "not_spawned"]
    /\ taskOut = [t \in Tasks |-> NoOut]
    /\ resolvedVersion = ""
    /\ tempArtifactDir = NoPath
    /\ tempDirOnDisk = FALSE
    /\ baselinePath = NoPath
    /\ artifacts = {}
    /\ sarifArtifactName = ""
    /\ delta = [deltaNewFindings |-> Undefined, deltaResolvedFindings |-> Undefined]
    /\ summary = NoSummary
    /\ outputs = NoOutputs
    /\ failed = None
    /\ gateEvaluated = FALSE
    /\ log = <<>>
    /\ comments = <<>>
    /\ existingCommentId = [c \in Callers |-> NullId]
    /\ IdlePublishers
    /\ IdleDelta

\* One of runFacts, runRiskReport, runPrBody, runFactsSarif builds its command
\* and starts it (runner.ts 372-381; the SARIF one only with sarifUpload).
BuildCommand(t) ==
    /\ pc = "off"
    /\ options.set
    /\ t \in {"facts", "risk-report", "pr-body"} \cup
             (IF options.sarifUpload THEN {"sarif"} ELSE {})
    /\ ~invoked[t].spawned
    /\ invoked' = [invoked EXCEPT ![t] = CommandOf(t, options)]
    /\ tasks' = [tasks EXCEPT ![t] = "running"]
    /\ UNCHANGED <<inputs, pc, taskOut, resolvedVersion, tempArtifactDir, tempDirOnDisk,
                   baselinePath, artifacts, sarifArtifactName, delta, summary, outputs,
                   failed, gateEvaluated, log>>
    /\ UNCHANGED <<options, versionLookup, mkdtempCalls, cleanupCalls, fetch, runResult>>
    /\ UNCHANGED <<ghVars, pubVars, deltaVars>>

NextArgs == \E t \in Tasks : BuildCommand(t)

SpecArgs == InitArgs /\ [][NextArgs]_vars

\* C13: the commands spawned by one runBranchNarrator call all carry the same
\* base/head range, the same exclude and include file filters and the same
\* per-file and per-diff size limits.
C13_SameArguments ==
    \A t, u \in Tasks :
        (invoked[t].spawned /\ invoked[u].spawned)
        => /\ invoked[t].base = invoked[u].base
           /\ invoked[t].head = invoked[u].head
           /\ invoked[t].exclude = invoked[u].exclude
           /\ invoked[t].include = invoked[u].include
           /\ invoked[t].maxFileBytes = invoked[u].maxFileBytes
           /\ invoked[t].maxDiffBytes = invoked[u].maxDiffBytes


(***************************************************************************)
(* SpecLive: one run under fair scheduling.  The event loop resumes run()  *)
(* whenever an awaited call has answered, API and file-system calls        *)
(* answer, and a subprocess exits unless it is one that hangs.             *)
(***************************************************************************)
\* Runs on a same-repository pull request with comment, token, SARIF upload
\* and a threshold; with and without a baseline artifact.
LiveInputs ==
    {i \in InputSpace : /\ i.isPR /\ ~i.isFork /\ i.comment /\ i.hasToken
                        /\ i.baseSha = "" /\ i.sarifUpload /\ i.failOnScore = 70}

InitLive ==
    /\ Init
    /\ inputs \in LiveInputs

\* A spawned subprocess blocks for good (execAsync is given no timeout and no
\* kill signal, runner.ts 68-75): it stays alive and never exits.
SubprocessHang(t) ==
    /\ tasks[t] = "running"
    /\ tasks' = [tasks EXCEPT ![t] = "hung"]
    /\ UNCHANGED <<inputs, pc, taskOut, resolvedVersion, tempArtifactDir, tempDirOnDisk,
                   baselinePath, artifacts, sarifArtifactName, delta, summary, outputs,
                   failed, gateEvaluated, log>>
    /\ UNCHANGED <<ghVars, pubVars, deltaVars, callVars>>

NextLive ==
    \/ Next
    \/ \E t \in Tasks : SubprocessHang(t)

SpecLive == InitLive /\ [][NextLive]_vars /\ WF_vars(Next)

\* C14: every run eventually terminates, a subprocess that never exits being
\* cut off by a timeout and turned into a failure of the run.
C14_RunTerminates == <>(pc = "done")


(***************************************************************************)
(* Error handling and terminal status of one run (Spec).                   *)
(***************************************************************************)
\* C15: when the upload of the facts or the risk-report artifact has failed
\* (the artifacts stage is over and one of the two is missing), the run is not
\* marked failed by an error and, once ended, has gone through the reports
\* and set its outputs.
C15_UploadFailureDegrades ==
    (End("artifacts") \in Range(log)
       /\ ~({FactsArtifactName, RiskArtifactName} \subseteq artifacts))
    => /\ failed # "error"
       /\ pc = "done" => (End("reports") \in Range(log) /\ outputs # NoOutputs)

\* C16: when the comment was attempted and not posted (the reports stage is
\* over and no comment holds this run's report), the run is not marked failed
\* by an error and, once ended, has set its outputs and evaluated the gate.
C16_CommentErrorNotFatal ==
    ( /\ CommentAttempted(inputs)
      /\ End("reports") \in Range(log)
      /\ \A i \in DOMAIN comments : comments[i].body # renderPRComment(RunContent) )
    => /\ failed # "error"
       /\ pc \in {"cleanup", "done"} => (outputs # NoOutputs /\ gateEvaluated)

C16_Witness ==
    /\ CommentAttempted(inputs)
    /\ End("reports") \in Range(log)
    /\ comments = <<[id |-> 1, body |-> OldReport]>>
    /\ existingCommentId[RunCaller] = 1
    /\ outputs # NoOutputs
    /\ gateEvaluated
    /\ failed = None
    /\ pc = "done"

\* C17: the run lists, creates or updates a comment only on a pull request
\* that is not from a fork, with comment posting enabled and a token present;
\* otherwise the comments stay as they were and the run goes from the summary
\* straight to its outputs, its status untouched.
C17_CommentPreconditions ==
    /\ [](pc \in {"comment_list", "comment_act"}
            => (inputs.isPR /\ ~inputs.isFork /\ inputs.comment /\ inputs.hasToken))
    /\ [][(comments' # comments \/ existingCommentId' # existingCommentId)
            => (inputs.isPR /\ ~inputs.isFork /\ inputs.comment /\ inputs.hasToken)]_vars
    /\ [][(pc = "reports"
             /\ ~(inputs.isPR /\ ~inputs.isFork /\ inputs.comment /\ inputs.hasToken))
            => (pc' = "outputs" /\ failed' = failed /\ comments' = comments)]_vars

C17_Witness ==
    /\ inputs.isPR
    /\ inputs.isFork
    /\ inputs.comment
    /\ inputs.hasToken
    /\ comments = <<[id |-> 1, body |-> OldReport]>>
    /\ existingCommentId[RunCaller] = NullId
    /\ summary # NoSummary
    /\ outputs # NoOutputs
    /\ failed = None
    /\ pc = "done"

\* C18: a run given a usable range ends marked failed exactly when an
\* analyzer subprocess exited non-zero or printed unparsable output, or the
\* score-threshold gate fired.
C18_FailedIffFatalOrGate ==
    (pc = "done" /\ (inputs.isPR \/ (inputs.baseSha # "" /\ inputs.headSha # "")))
    => (failed # None
        <=> \/ \E t \in Tasks : tasks[t] \in {"exit_nonzero", "bad_json"}
            \/ /\ gateEvaluated
               /\ inputs.failOnScore # Undefined
               /\ taskOut["risk-report"].riskScore >= inputs.failOnScore)

C20_ResolveNeverRaises ==
    /\ [](versionLookup # None
            => /\ resolvedVersion =
                    (IF versionLookup = "ok" THEN RegistryVersion ELSE options.version)
               /\ resolvedVersion # ""
               /\ options.version = RequestedVersion)
    /\ [][pc = "resolve" => (pc' = "analysis" /\ failed' = None)]_vars
    /\ [](invoked["facts"].spawned => versionLookup # None)

C20_Witness ==
    /\ versionLookup = "timeout"
    /\ resolvedVersion = RequestedVersion
    /\ RequestedVersion # RegistryVersion
    /\ tasks["facts"] = "running"
    /\ tasks["risk-report"] = "running"
    /\ failed = None


(***************************************************************************)
(* SpecScope: one run on a same-repository pull request, over since-strict *)
(* and over the scope of the stored baseline.                              *)
(***************************************************************************)
ScopeInputs ==
    {i \in [isPR : {TRUE}, isFork : {FALSE}, baseSha : {""}, headSha : {""},
            comment : {TRUE}, hasToken : {TRUE}, failOnScore : {70},
            sarifUpload : {TRUE}, baselineArtifact : BOOLEAN,
            sinceStrict : BOOLEAN, baselineScope : BaselineScopes] :
        ~i.baselineArtifact => i.baselineScope = "related"}

InitScope ==
    /\ inputs \in ScopeInputs
    /\ pc = "start"
    /\ IdleRun
    /\ comments \in {<<>>, <<[id |-> 1, body |-> OldReport]>>}
    /\ existingCommentId = [c \in Callers |-> NullId]
    /\ IdlePublishers
    /\ IdleDelta
    /\ IdleFetch

SpecScope == InitScope /\ [][Next]_vars

\* The run obtained a baseline whose range does not match the run's range.
ScopeMismatch == baselinePath # NoPath /\ inputs.baselineScope = "unrelated"

\* C21: with a baseline whose scope does not match and since-strict off, the
\* facts document still carries the delta, the run computes its counts and
\* sets them as outputs, and the delta step leaves the status alone; with
\* since-strict on, the facts command cannot succeed and the run ends failed
\* with no output set; without a baseline no command is given --since-strict.
C21_ScopeAdvisoryUnlessStrict ==
    /\ []((ScopeMismatch /\ ~inputs.sinceStrict)
          => /\ taskOut["facts"].done
                => /\ taskOut["facts"].delta.present
                   /\ ~taskOut["facts"].delta.scopeMatch
                   /\ taskOut["facts"].delta.newFindings = <<4>>
                   /\ taskOut["facts"].delta.resolvedFindings = <<1, 2>>
             /\ (End("delta") \in Range(log))
                => delta = [deltaNewFindings |-> 1, deltaResolvedFindings |-> 2]
             /\ outputs # NoOutputs
                => /\ "delta-new-findings" \in DOMAIN outputs
                   /\ "delta-resolved-findings" \in DOMAIN outputs
                   /\ outputs["delta-new-findings"] = "1"
                   /\ outputs["delta-resolved-findings"] = "2")
    /\ [][(ScopeMismatch /\ ~inputs.sinceStrict /\ pc = "delta")
          => (pc' = "reports" /\ failed' = failed)]_vars
    /\ []((ScopeMismatch /\ inputs.sinceStrict)
          => /\ tasks["facts"] # "ok"
             /\ outputs = NoOutputs
             /\ pc = "done" => failed = "error")
    /\ [](baselinePath = NoPath
          => \A t \in Tasks : invoked[t].spawned => ~invoked[t].sinceStrict)

\* C21 witness: a run over a mismatching baseline, since-strict off, has ended
\* unfailed with both delta counts among its outputs.
C21_Witness ==
    /\ ScopeMismatch
    /\ ~inputs.sinceStrict
    /\ pc = "done"
    /\ failed = None
    /\ "delta-new-findings" \in DOMAIN outputs
    /\ "delta-resolved-findings" \in DOMAIN outputs


(***************************************************************************)
(* The facts and risk-report bodies as platform outputs (ActionOutputs     *)
(* facts, riskReport, factsTruncated, riskReportTruncated; CHANGELOG       *)
(* 1.3.0) and OutputTruncator.bound.  A string is the sequence of its      *)
(* blocks of BlockBytes bytes.                                             *)
(***************************************************************************)
BlockBytes == 524288

\* The ceiling of a platform output: 1 MiB.
OutputLimit == 2 * BlockBytes

ByteLength(v) == Len(v) * BlockBytes

\* OutputTruncator.bound(value, limit), limit a whole number of blocks: the
\* value unchanged with the flag clear when it fits, its prefix of exactly
\* limit bytes with the flag set otherwise.
bound(v, limit) ==
    IF ByteLength(v) <= limit
    THEN [value |-> v, truncated |-> FALSE]
    ELSE [value |-> SubSeq(v, 1, limit \div BlockBytes), truncated |-> TRUE]

\* JSON.stringify of one of the analyzer's documents: here a single block
\* naming the document.
Stringify(doc) == <<doc.from>>

\* C22: once the outputs are set, the facts and risk-report bodies are among
\* them, each the value bound() gives for the document's JSON text under the
\* 1 MiB limit (the text itself with the flag false when it fits, else its
\* prefix of exactly 1 MiB with the flag true), each with its truncation flag.
C22_BodiesBounded ==
    outputs # NoOutputs
    => /\ {"facts", "facts-truncated", "risk-report", "risk-report-truncated"}
             \subseteq DOMAIN outputs
       /\ \A t \in JsonTasks :
             LET b == bound(Stringify(taskOut[t]), OutputLimit)
             IN /\ outputs[t] = b.value
                /\ outputs[t \o "-truncated"] = b.truncated
                /\ ByteLength(b.value) <= OutputLimit
                /\ b.truncated <=> ByteLength(Stringify(taskOut[t])) > OutputLimit
                /\ ~b.truncated => b.value = Stringify(taskOut[t])
                /\ b.truncated => ByteLength(b.value) = OutputLimit


(***************************************************************************)
(* The baseline handed to the subprocesses (Spec).                         *)
(***************************************************************************)
\* C23: when a baseline was obtained, the --since path of the facts command
\* is the stored facts document (factsPath) and the --since path of the
\* risk-report command is the stored risk-report document (riskReportPath).
C23_BaselinePathsMatch ==
    baselinePath # NoPath
    => /\ baselinePath = FactsPathIn(TempDir)
       /\ invoked["facts"].spawned => invoked["facts"].since = FactsPathIn(TempDir)
       /\ invoked["risk-report"].spawned
            => invoked["risk-report"].since = RiskReportPathIn(TempDir)

\* C24: a subprocess that was given a path inside the staging directory and
\* is still running finds the directory on disk, and once a run that obtained
\* a baseline is at its cleanup step or beyond, no subprocess of the run is
\* still running.
C24_NoCleanupWhileRunning ==
    /\ \A t \in Tasks :
          (tasks[t] = "running" /\ invoked[t].since # NoPath) => tempDirOnDisk
    /\ (pc \in {"cleanup", "done"} /\ baselinePath # NoPath)
          => \A t \in Tasks : tasks[t] # "running"


C26_FirstOfSeveralUpdated ==
    [][( /\ Len(pubCalls'["p1"]) = Len(pubCalls["p1"]) + 1
         /\ ~apiFailed'
         /\ Cardinality(MarkerBearing(comments)) >= 2 )
       => LET first == CHOOSE i \in MarkerBearing(comments) :
                          \A j \in MarkerBearing(comments) : i <= j
          IN /\ Len(comments') = Len(comments)
             /\ comments'[first].body = pubBody["p1"]
             /\ \A j \in DOMAIN comments : j # first => comments'[j] = comments[j]]_vars


(***************************************************************************)
(* Outputs of one run (Spec).                                              *)
(***************************************************************************)
\* C27: the sarif-artifact-name output is set only when SARIF generation was
\* requested and the SARIF artifact was uploaded; when the SARIF upload did
\* not happen (file missing or upload failed) the output is absent and the
\* run is not marked failed by an error.
C27_SarifNameOnlyIfUploaded ==
    /\ "sarif-artifact-name" \in DOMAIN outputs
          => (inputs.sarifUpload /\ SarifArtifactName \in artifacts)
    /\ ( /\ End("artifacts") \in Range(log)
         /\ {FactsArtifactName, RiskArtifactName} \subseteq artifacts
         /\ SarifArtifactName \notin artifacts )
       => failed # "error"


(***************************************************************************)
(* SpecJoin: runBranchNarrator (runner.ts 369-393) starts its commands,    *)
(* which complete in any order, and builds its RunResult from the array    *)
(* Promise.all fulfils with.                                               *)
(***************************************************************************)
\* The promises array, in the order it is built (372-381).
Promises(o) ==
    <<"facts", "risk-report", "pr-body">> \o (IF o.sarifUpload THEN <<"sarif">> ELSE <<>>)

\* The commands in the order in which they completed.
Completed(events) == [k \in DOMAIN events |-> events[k][2]]

\* A wrong join: the results are in the order of completion.
PromiseAll_completionOrder(promises, completed, values) ==
    [k \in DOMAIN promises |-> values[completed[k]]]

\* Promise.all (383): the array of the fulfilment values, in the order of the
\* promises whatever the order of completion.
PromiseAll(promises, completed, values) ==
    [k \in DOMAIN promises |-> values[promises[k]]]

\* runner.ts 385-393: the RunResult taken from the results by position;
\* sarifPath is undefined without sarifUpload.
RunResultOf(results, o) ==
    [returned |-> TRUE,
     facts |-> results[1],
     riskReport |-> results[2],
     prBodyMarkdown |-> results[3],
     sarifPath |-> IF o.sarifUpload THEN results[4] ELSE NoOut]

JoinOptions == {o \in OptionSpace : /\ ~o.sinceStrict /\ o.exclude = <<>> /\ o.include = <<>>
                                     /\ o.maxFileBytes = Undefined
                                     /\ o.maxDiffBytes = Undefined}

InitJoin ==
    /\ options \in JoinOptions
    /\ pc = "join"
    /\ invoked = [t \in Tasks |-> NoArgs]
    /\ versionLookup = None
    /\ mkdtempCalls = 0
    /\ cleanupCalls = 0
    /\ runResult = NoResult
    /\ IdleFetch
    /\ inputs = OffInputs
    /\ tasks = [t \in Tasks |-> "not_spawned"]
    /\ taskOut = [t \in Tasks |-> NoOut]
    /\ resolvedVersion = ""
    /\ tempArtifactDir = NoPath
    /\ tempDirOnDisk = FALSE
    /\ baselinePath = NoPath
    /\ artifacts = {}
    /\ sarifArtifactName = ""
    /\ delta = [deltaNewFindings |-> Undefined, deltaResolvedFindings |-> Undefined]
    /\ summary = NoSummary
    /\ outputs = NoOutputs
    /\ failed = None
    /\ gateEvaluated = FALSE
    /\ log = <<>>
    /\ comments = <<>>
    /\ existingCommentId = [c \in Callers |-> NullId]
    /\ IdlePublishers
    /\ IdleDelta

\* 372-381: the three commands are started, the SARIF one with sarifUpload.
JoinSpawn ==
    /\ pc = "join"
    /\ tasks' = [t \in Tasks |-> IF t \in Range(Promises(options)) THEN "running" ELSE tasks[t]]
    /\ invoked' = [t \in Tasks |-> IF t \in Range(Promises(options))
                                    THEN CommandOf(t, options) ELSE invoked[t]]
    /\ pc' = "join_await"
    /\ UNCHANGED <<inputs, taskOut, resolvedVersion, tempArtifactDir, tempDirOnDisk,
                   baselinePath, artifacts, sarifArtifactName, delta, summary, outputs,
                   failed, gateEvaluated, log>>
    /\ UNCHANGED <<options, versionLookup, mkdtempCalls, cleanupCalls, fetch, runResult>>
    /\ UNCHANGED <<ghVars, pubVars, deltaVars>>

\* One command completes.  A failure rejects the await (394-397); the last
\* fulfilment fulfils it and the RunResult is built and returned (385-393).
JoinExit(t, outcome, result) ==
    /\ pc = "join_await"
    /\ tasks[t] = "running"
    /\ outcome \in {"ok", "exit_nonzero"}
    /\ result \in TaskResults(t, options.baselinePath)
    /\ tasks' = [tasks EXCEPT ![t] = outcome]
    /\ taskOut' = IF outcome = "ok" THEN [taskOut EXCEPT ![t] = result] ELSE taskOut
    /\ log' = Append(log, End(t))
    /\ IF outcome # "ok"
       THEN /\ pc' = "join_rejected"
            /\ UNCHANGED runResult
       ELSE IF \A u \in Range(Promises(options)) : tasks'[u] = "ok"
       THEN /\ pc' = "join_returned"
            /\ runResult' = RunResultOf(PromiseAll(Promises(options), Completed(log'),
                                                   taskOut'), options)
       ELSE UNCHANGED <<pc, runResult>>
    /\ UNCHANGED <<inputs, resolvedVersion, tempArtifactDir, tempDirOnDisk, baselinePath,
                   artifacts, sarifArtifactName, delta, summary, outputs, failed,
                   gateEvaluated>>
    /\ UNCHANGED <<options, invoked, versionLookup, mkdtempCalls, cleanupCalls, fetch>>
    /\ UNCHANGED <<ghVars, pubVars, deltaVars>>

NextJoin ==
    \/ JoinSpawn
    \/ \E t \in Tasks : \E outcome \in {"ok", "exit_nonzero"} :
          \E result \in TaskResults(t, options.baselinePath) : JoinExit(t, outcome, result)

SpecJoin == InitJoin /\ [][NextJoin]_vars

\* C28: the SARIF command is spawned exactly when SARIF generation was
\* requested, and in whatever order the commands completed the RunResult
\* holds as facts the value of the facts command, as riskReport the value of
\* the risk-report command, as prBodyMarkdown the value of the pr-body
\* command, and a sarifPath, the SARIF command's value, exactly when SARIF
\* generation was requested.
C28_ResultsPaired ==
    /\ pc # "join"
          => /\ invoked["sarif"].spawned <=> options.sarifUpload
             /\ \A t \in {"facts", "risk-report", "pr-body"} : invoked[t].spawned
    /\ runResult.returned
          => /\ runResult.facts = taskOut["facts"]
             /\ runResult.facts.from = "facts"
             /\ runResult.riskReport = taskOut["risk-report"]
             /\ runResult.riskReport.from = "risk-report"
             /\ runResult.prBodyMarkdown = taskOut["pr-body"]
             /\ runResult.prBodyMarkdown.from = "pr-body"
             /\ runResult.sarifPath.done <=> options.sarifUpload
             /\ options.sarifUpload => runResult.sarifPath.from = "sarif"

\* C28 witness: the commands completed in the reverse of the order in which
\* they were started, and the RunResult was returned.
C28_Witness ==
    /\ runResult.returned
    /\ options.sarifUpload
    /\ Completed(log) = <<"sarif", "pr-body", "risk-report", "facts">>
    /\ runResult.sarifPath.done


(***************************************************************************)
(* SpecRange: one run over the event and every combination of base-sha and *)
(* head-sha inputs.                                                        *)
(***************************************************************************)
RangeInputs ==
    [isPR : BOOLEAN, isFork : {FALSE}, baseSha : {"", "in-base"},
     headSha : {"", "in-head"}, comment : {TRUE}, hasToken : {TRUE},
     failOnScore : {70}, sarifUpload : {TRUE}, baselineArtifact : BOOLEAN,
     sinceStrict : {FALSE}, baselineScope : {"related"}]

InitRange ==
    /\ inputs \in RangeInputs
    /\ pc = "start"
    /\ IdleRun
    /\ comments \in (IF inputs.isPR
                     THEN {<<>>, <<[id |-> 1, body |-> OldReport]>>}
                     ELSE {<<>>})
    /\ existingCommentId = [c \in Callers |-> NullId]
    /\ IdlePublishers
    /\ IdleDelta
    /\ IdleFetch

SpecRange == InitRange /\ [][Next]_vars

\* C29: with a pull request context the options and every command carry the
\* pull request's base and head SHAs, whatever the base-sha / head-sha inputs;
\* without one, a run lacking either input ends failed with no baseline fetch,
\* no version lookup and no command started, and a run given both inputs
\* goes on and carries exactly those two.
C29_RangeSelection ==
    /\ inputs.isPR
          => /\ options.set => (options.baseSha = "pr-base" /\ options.headSha = "pr-head")
             /\ \A t \in Tasks : invoked[t].spawned
                   => (invoked[t].base = "pr-base" /\ invoked[t].head = "pr-head")
             /\ pc = "done" => log # <<>>
    /\ (~inputs.isPR /\ (inputs.baseSha = "" \/ inputs.headSha = ""))
          => /\ pc # "start" => (pc = "done" /\ failed = "error")
             /\ log = <<>>
             /\ mkdtempCalls = 0
             /\ versionLookup = None
             /\ ~options.set
             /\ \A t \in Tasks : tasks[t] = "not_spawned" /\ ~invoked[t].spawned
    /\ (~inputs.isPR /\ inputs.baseSha # "" /\ inputs.headSha # "")
          => /\ options.set => /\ options.baseSha = inputs.baseSha
                                /\ options.headSha = inputs.headSha
             /\ \A t \in Tasks : invoked[t].spawned
                   => /\ invoked[t].base = "in-base"
                      /\ invoked[t].head = "in-head"
             /\ pc = "done" => log # <<>>

\* C29 witness: a pull request run given both inputs has finished, its
\* commands having carried the pull request's SHAs.
C29_Witness ==
    /\ inputs.isPR
    /\ inputs.baseSha = "in-base"
    /\ inputs.headSha = "in-head"
    /\ invoked["facts"].spawned
    /\ invoked["risk-report"].spawned
    /\ invoked["facts"].base = "pr-base"
    /\ invoked["risk-report"].head = "pr-head"
    /\ pc = "done"
    /\ failed = None


(***************************************************************************)
(* SpecCounts: the part of run() from the analysis results to the outputs  *)
(* (main.ts 266-346), over the snapshots the analyzer compared and over    *)
(* runs with and without a baseline.                                       *)
(***************************************************************************)
\* Snapshots of at most two findings.
CountSnapshots == {sn \in Snapshots : Len(sn) <= 2}

CountInputs ==
    [isPR |-> TRUE, isFork |-> FALSE, baseSha |-> "", headSha |-> "", comment |-> TRUE,
     hasToken |-> TRUE, failOnScore |-> 70, sarifUpload |-> FALSE,
     baselineArtifact |-> TRUE, sinceStrict |-> FALSE, baselineScope |-> "related"]

InitCounts ==
    /\ inputs = CountInputs
    /\ pc = "results"
    /\ IdleRun
    /\ comments \in {<<>>, <<[id |-> 1, body |-> OldReport]>>}
    /\ existingCommentId = [c \in Callers |-> NullId]
    /\ IdlePublishers
    /\ baselineSnap \in CountSnapshots
    /\ currentSnap \in CountSnapshots
    /\ deltaResult = NoDelta
    /\ reordered = FALSE
    /\ IdleFetch

\* runBranchNarrator has returned and the artifacts are uploaded: facts with
\* the delta of the two snapshots when --since was passed, without one
\* otherwise.
AnalysisResults(withBaseline, score) ==
    /\ pc = "results"
    /\ tasks' = [t \in Tasks |-> IF t \in Spawned(inputs) THEN "ok" ELSE tasks[t]]
    /\ taskOut' = [t \in Tasks |->
                     CASE t = "facts" ->
                            [done |-> TRUE, from |-> "facts",
                             delta |-> IF withBaseline
                                       THEN FactsDelta(baselineSnap, currentSnap, "related")
                                       ELSE NoDelta]
                       [] t = "risk-report" -> RiskOutput(score)
                       [] t = "pr-body" -> PrBodyOutput
                       [] t = "sarif" -> taskOut[t]]
    /\ resolvedVersion' = RegistryVersion
    /\ artifacts' = {FactsArtifactName, RiskArtifactName}
    /\ pc' = "delta"
    /\ UNCHANGED <<inputs, tempArtifactDir, tempDirOnDisk, baselinePath, sarifArtifactName,
                   delta, summary, outputs, failed, gateEvaluated, log>>
    /\ UNCHANGED <<ghVars, pubVars, deltaVars, callVars>>

NextCounts ==
    \/ \E withBaseline \in BOOLEAN : \E score \in Scores :
          AnalysisResults(withBaseline, score)
    \/ ComputeDelta
    \/ \E ok \in BOOLEAN : WriteStepSummary(ok)
    \/ \E ok \in BOOLEAN : CommentList(ok)
    \/ \E ok \in BOOLEAN : CommentAct(ok)
    \/ SetOutputs
    \/ Gate

SpecCounts == InitCounts /\ [][NextCounts]_vars

\* The counts of a facts document: the numbers of identity keys among its
\* delta's newFindings and resolvedFindings, undefined without a delta.
KeyCounts(facts) ==
    IF facts.delta.present
    THEN [deltaNewFindings |-> Cardinality(Range(facts.delta.newFindings)),
          deltaResolvedFindings |-> Cardinality(Range(facts.delta.resolvedFindings))]
    ELSE [deltaNewFindings |-> Undefined, deltaResolvedFindings |-> Undefined]

\* C30: once the outputs are set, delta-new-findings and
\* delta-resolved-findings are both set when the facts document carries a
\* delta and both absent when it does not, and hold the numbers of identity
\* keys in the delta's newFindings and resolvedFindings; the step summary and
\* the comment of the run are rendered from those same two numbers.
C30_DeltaCountsEmitted ==
    LET facts == taskOut["facts"]
        content == ReportContent(resolvedVersion, taskOut["risk-report"].riskScore,
                                 KeyCounts(facts))
    IN /\ outputs # NoOutputs
            => /\ ("delta-new-findings" \in DOMAIN outputs) <=> facts.delta.present
               /\ ("delta-resolved-findings" \in DOMAIN outputs) <=> facts.delta.present
               /\ facts.delta.present
                     => /\ outputs["delta-new-findings"]
                             = ToString(KeyCounts(facts).deltaNewFindings)
                        /\ outputs["delta-resolved-findings"]
                             = ToString(KeyCounts(facts).deltaResolvedFindings)
                        /\ KeyCounts(facts).deltaNewFindings
                             = Cardinality(KeysOf(currentSnap) \ KeysOf(baselineSnap))
                        /\ KeyCounts(facts).deltaResolvedFindings
                             = Cardinality(KeysOf(baselineSnap) \ KeysOf(currentSnap))
       /\ summary # NoSummary => summary = renderStepSummary(content)
       /\ \A i \in DOMAIN comments :
             comments[i].body # OldReport => comments[i].body = renderPRComment(content)

\* C30 witness: a run whose delta has two new findings and one resolved has
\* set its outputs, written its summary and posted its comment.
C30_Witness ==
    /\ outputs # NoOutputs
    /\ taskOut["facts"].delta.present
    /\ Len(taskOut["facts"].delta.newFindings) = 2
    /\ Len(taskOut["facts"].delta.resolvedFindings) = 1
    /\ outputs["delta-new-findings"] = "2"
    /\ outputs["delta-resolved-findings"] = "1"
    /\ summary # NoSummary
    /\ \E i \in DOMAIN comments : comments[i].body # OldReport

====
